---- MODULE Spec2Model ----
(***************************************************************************)
(* Model of the rate-limited, retrying API access layer of tracker_audit   *)
(* (src/api_client.py): RateLimiter and TrackerApiClient._make_request.    *)
(*                                                                         *)
(* Time is counted in ticks of 1/240 s, so that every interval the limiter *)
(* can hold (1/5, 1/3, 1/2, 3/4, 9/8, 27/16, 2, 4 seconds ...) is an exact  *)
(* integer.  Rates are counted in quarter requests per second, so that     *)
(* 0.25/s, 0.5/s, 3/s and 5/s are exact integers as well.                  *)
(***************************************************************************)
EXTENDS Integers, Sequences, FiniteSets, TLC

\* ------------------------------------------------------------------ units
\* 240 = lcm(16, 15): denominators of 1/3 * 1.5^k (k <= 4) and of 1/5, 1/3.
TicksPerSecond == 16 * 15

\* rates are stored as 4 * (requests per second)
RateUnitsPerRps == 2 * 2

Min(a, b) == IF a <= b THEN a ELSE b

\* ----------------------------------------------------------------- bounds
\* largest max_retries a caller passes
MaxRetries == 5
\* StartCall is disabled once this many attempts could be exceeded
MaxRequests == 6
\* bounds of the direct RateLimiter driver (LimiterSpec)
MaxWaits == 3
MaxThrottles == 7
\* longest idle time, in ticks, the driver lets pass between limiter calls
MaxIdle == 500
\* a request's duration in ticks when it is not instantaneous
Latency == 100
\* largest per_page of a paginated fetch, and most pages the service holds
MaxPerPage == 2
MaxPages == 3

\* initial max_requests_per_second values: 0.25, 0.5, 3.0, 5.0 (default)
InitialRates == {1, 2, 3 * RateUnitsPerRps, 5 * RateUnitsPerRps}

\* time.time() when the client is constructed; last_request_time starts at
\* 0.0, i.e. far in the past of any real clock reading
StartTime == 5 * TicksPerSecond

\* HTTP statuses the service answers with
Statuses == {200, 400, 401, 403, 404, 429, 500, 503}

VARIABLES
    \* RateLimiter
    max_rps,            \* RateLimiter.max_rps, in quarter requests/second
    min_interval,       \* RateLimiter.min_interval, in ticks
    last_request_time,  \* RateLimiter.last_request_time, in ticks
    request_count,      \* RateLimiter.request_count
    rate_limit_hits,    \* RateLimiter.rate_limit_hits
    configured_rps,     \* the max_requests_per_second the limiter was built with
    limiter_slept,      \* ticks the last wait_if_needed slept
    \* clock
    now,                \* time.time(), in ticks
    \* TrackerApiClient statistics
    total_requests,
    failed_requests,
    \* one _make_request call
    pc,                 \* "idle" | "wait" | "send"
    max_retries,        \* the call's max_retries argument
    attempt,            \* loop variable of the retry loop
    result,             \* "none" while running, else what the call produced
    \* observation of the current call
    outcome,            \* what the last attempt received: "none", "response",
                        \* "Timeout", "ConnectionError", "RequestException"
    status_code,        \* response.status_code of the last attempt, 0 if none
    sleeps,             \* backoff sleeps of this call, in seconds, in order
    n429,               \* number of 429 responses received in this call
    total0,             \* total_requests when the call started
    failed0,            \* failed_requests when the call started
    hits0,              \* rate_limit_hits when the call started
    \* one paginated fetch (get_queues / get_groups)
    per_page,           \* the per_page argument
    server_pages,       \* what the service holds: the size of each page
    page,               \* loop variable: the page to request next
    all_items,          \* all_queues / all_groups: <<page, index>> items
    page_requests,      \* the page numbers requested so far, in order
    fetch_pc,           \* "off" | "loop" | "done" | "raised"
    \* the organisation the service holds
    org_groups,         \* what GET /v3/groups lists: [id, type] records
    org_users,          \* what GET /v3/users lists: [id, display] records
    \* TrackerAuditor
    queues,             \* self.queues: the queue keys, in fetch order
    access_info,        \* self.access_info
    access_issues,      \* self.access_issues
    users_cached,       \* self._users_cache is not None
    users_cache,        \* self._users_cache
    groups_cached,      \* self._groups_cache is not None
    groups_cache,       \* self._groups_cache
    all_users_group_id, \* self._all_users_group_id, "" for None
    \* audit_all_queues
    scope,              \* the scope argument
    audit_pc,           \* position of the run, "off" when no audit runs
    qi,                 \* index of the queue being audited
    all_access_info,    \* the aggregate grant list
    \* audit_queue_access
    access_list,        \* grants collected for the current queue
    subjects,           \* the list the current loop iterates over
    si,                 \* index of the next subject in that list
    permissions_bound,  \* the local `permissions` has been assigned
    permissions,        \* the local `permissions`
    user_info_bound,    \* the local `user_info` has been assigned
    user_info_id,       \* user_info.get('id')
    \* observation of the run
    looked_up,          \* the last loop iteration: subject, reply, what came of it
    lookups,            \* number of permission lookups issued so far
    lookups_after_fatal, \* lookups issued after one failed with a fatal error
    group_fetches,      \* calls of api_client.get_groups() so far
    user_fetches,       \* calls of api_client.get_users() so far
    \* audit_queue_access called on one queue with each scope
    responses,          \* what the service answers to the lookup of each id
    returned            \* per scope: whether it was called, what it returned

pageVars == <<per_page, server_pages, page, all_items, page_requests, fetch_pc>>

orgVars == <<org_groups, org_users>>
auditorVars == <<queues, access_info, access_issues, users_cached, users_cache,
                 groups_cached, groups_cache, all_users_group_id>>
runVars == <<scope, audit_pc, qi, all_access_info>>
queueVars == <<access_list, subjects, si, permissions_bound, permissions,
               user_info_bound, user_info_id>>
obsVars == <<looked_up, lookups, lookups_after_fatal>>
fetchVars == <<group_fetches, user_fetches>>
auditVars == <<orgVars, auditorVars, runVars, queueVars, obsVars, fetchVars>>

\* the components the gateway and the limiter never touch
compareVars == <<responses, returned>>
restVars == <<pageVars, auditVars, compareVars>>

limiterVars == <<max_rps, min_interval, last_request_time, request_count,
                 rate_limit_hits, configured_rps, limiter_slept>>
callVars == <<pc, max_retries, attempt, result, outcome, status_code, sleeps,
              n429,
              total0, failed0, hits0>>
vars == <<max_rps, min_interval, last_request_time, request_count,
          rate_limit_hits, configured_rps, limiter_slept, now,
          total_requests, failed_requests,
          pc, max_retries, attempt, result, outcome, status_code, sleeps, n429,
          total0, failed0, hits0, restVars>>

\* ------------------------------------------------------------ RateLimiter

\* RateLimiter.__init__: min_interval = 1.0 / max_requests_per_second
interval_of_rate(r) == (TicksPerSecond * RateUnitsPerRps) \div r

\* the 2.0 second ceiling of min_interval
IntervalCap == 2 * TicksPerSecond

\* the 3.0 requests/second the first throttle clamps to
FloorRate == 3 * RateUnitsPerRps

RateLimiterInit(r) ==
    /\ max_rps = r
    /\ min_interval = interval_of_rate(r)
    /\ last_request_time = 0
    /\ request_count = 0
    /\ rate_limit_hits = 0
    /\ configured_rps = r
    /\ limiter_slept = 0

\* the limiter never sleeps
limiter_sleep_time_none(time_since_last) == 0

\* time.sleep(sleep_time) inside wait_if_needed: how long the caller sleeps
limiter_sleep_time(time_since_last) ==
    IF time_since_last < min_interval
    THEN min_interval - time_since_last
    ELSE 0

\* RateLimiter.wait_if_needed
wait_if_needed ==
    LET time_since_last == now - last_request_time
        woke == now + limiter_sleep_time(time_since_last)
    IN  /\ now' = woke
        /\ last_request_time' = woke
        /\ request_count' = request_count + 1
        /\ limiter_slept' = limiter_sleep_time(time_since_last)
        /\ UNCHANGED <<max_rps, min_interval, rate_limit_hits, configured_rps>>

\* the 2.0 second ceiling forgotten
increased_delay_uncapped(iv) == (3 * iv) \div 2

\* min(self.min_interval * 1.5, 2.0)
increased_delay(iv) ==
    IF 3 * iv >= 2 * IntervalCap THEN IntervalCap ELSE (3 * iv) \div 2

\* RateLimiter.reduce_rate_on_limit_hit
reduce_rate_on_limit_hit ==
    /\ rate_limit_hits' = rate_limit_hits + 1
    /\ IF max_rps > FloorRate
       THEN /\ max_rps' = FloorRate
            /\ min_interval' = interval_of_rate(FloorRate)
       ELSE /\ max_rps' = max_rps
            /\ min_interval' = increased_delay(min_interval)
    /\ UNCHANGED configured_rps

\* ------------------------------------------------------- TrackerApiClient

ClientInit ==
    /\ total_requests = 0
    /\ failed_requests = 0

CallInit ==
    /\ pc = "idle"
    /\ max_retries = 0
    /\ attempt = 0
    /\ result = "none"
    /\ outcome = "none"
    /\ status_code = 0
    /\ sleeps = <<>>
    /\ n429 = 0
    /\ total0 = 0
    /\ failed0 = 0
    /\ hits0 = 0

\* a dict key that is absent
Missing == "<missing>"

\* no 403 body
NoBody ==
    [json_ok |-> FALSE, key |-> Missing, display |-> Missing,
     deleted |-> Missing, has_owner |-> FALSE, owner_display |-> Missing,
     owner_email |-> Missing, messages |-> <<>>, pdm |-> ""]

\* what one permission lookup through _make_request ends with: its result
\* (see Finish), the status of the last response, the parsed JSON of a
\* successful response and the body of a 403
Reply(r, st, d, b) == [result |-> r, status |-> st, data |-> d, body |-> b]

NoReply == Reply("none", 0, <<>>, NoBody)

NoSubject == [queue |-> "", subject_type |-> "", subject_id |-> "",
              reply |-> NoReply, came |-> "none"]

\* the auditor as TrackerAuditor.__init__ leaves it
AuditorInit ==
    /\ queues = <<>>
    /\ access_info = <<>>
    /\ access_issues = <<>>
    /\ users_cached = FALSE
    /\ users_cache = <<>>
    /\ groups_cached = FALSE
    /\ groups_cache = <<>>
    /\ all_users_group_id = ""

\* the locals of audit_all_queues and audit_queue_access before they run
RunInit ==
    /\ qi = 1
    /\ all_access_info = <<>>
    /\ access_list = <<>>
    /\ subjects = <<>>
    /\ si = 1
    /\ permissions_bound = FALSE
    /\ permissions = <<>>
    /\ user_info_bound = FALSE
    /\ user_info_id = ""
    /\ looked_up = NoSubject
    /\ lookups = 0
    /\ lookups_after_fatal = 0
    /\ group_fetches = 0
    /\ user_fetches = 0

\* audit_queue_access is not being compared across scopes
CompareIdle ==
    /\ responses = <<>>
    /\ returned = <<>>

\* no audit is running
AuditIdle ==
    /\ CompareIdle
    /\ org_groups = <<>>
    /\ org_users = <<>>
    /\ AuditorInit
    /\ scope = "both"
    /\ audit_pc = "off"
    /\ RunInit

\* no paginated fetch is running
PageIdle ==
    /\ per_page = 1
    /\ server_pages = <<>>
    /\ page = 1
    /\ all_items = <<>>
    /\ page_requests = <<>>
    /\ fetch_pc = "off"

Init ==
    /\ \E r \in InitialRates : RateLimiterInit(r)
    /\ now = StartTime
    /\ ClientInit
    /\ CallInit
    /\ PageIdle
    /\ AuditIdle

\* a caller enters _make_request(method, endpoint, max_retries = m)
StartCall ==
    /\ pc = "idle"
    /\ \E m \in 0..MaxRetries :
         /\ total_requests + m + 1 <= MaxRequests
         /\ max_retries' = m
    /\ attempt' = 0
    /\ pc' = "wait"
    /\ result' = "none"
    /\ outcome' = "none"
    /\ status_code' = 0
    /\ sleeps' = <<>>
    /\ n429' = 0
    /\ total0' = total_requests
    /\ failed0' = failed_requests
    /\ hits0' = rate_limit_hits
    /\ UNCHANGED <<limiterVars, now, total_requests, failed_requests>>
    /\ UNCHANGED restVars

\* top of the loop body: self.rate_limiter.wait_if_needed()
ApplyRateLimit ==
    /\ pc = "wait"
    /\ wait_if_needed
    /\ pc' = "send"
    /\ UNCHANGED <<total_requests, failed_requests, max_retries, attempt,
                   result, outcome, status_code, sleeps, n429, total0,
                   failed0, hits0>>
    /\ UNCHANGED restVars

\* off by one: one retry more than the budget allows
attempts_remain_off_by_one == attempt <= max_retries

\* "if attempt < max_retries": the retry budget is not used up
attempts_remain == attempt < max_retries

\* the 10 second cap forgotten
rate_limit_backoff_uncapped(a) == 2 ^ a

\* backoff_time = min(2 ** attempt, 10), in seconds
rate_limit_backoff(a) == Min(2 ^ a, 10)

\* the cap of the 429 branch copied to the exception handlers
exception_backoff_capped(a) == Min(2 ^ a, 10)

\* time.sleep(2 ** attempt) of the Timeout / ConnectionError handlers
exception_backoff(a) == 2 ^ a

\* server errors retried like rate-limit responses
retries_status_and_5xx(status) == status = 429 \/ status >= 500

\* the 429 branch retries while attempts remain
retries_status(status) == status = 429

\* "except requests.exceptions.RequestException": count the failure, re-raise
except_RequestException(failed) == failed + 1

\* the statuses whose branch raises by itself: exhausted 429, 401, 403, 5xx
raises_in_branch(status) ==
    status = 429 \/ status = 401 \/ status = 403 \/ status >= 500

\* 404 let through as a response
raise_for_status_except_404(status) ==
    status >= 400 /\ status < 600 /\ status # 404

\* response.raise_for_status() raises for every 4xx and 5xx status
raise_for_status(status) == status >= 400 /\ status < 600

\* the error a response with an error status is turned into
http_error_of(status) ==
    IF status = 429 THEN "RateLimitExceeded"
    ELSE IF status = 401 THEN "Unauthorized"
    ELSE IF status = 403 THEN "PermissionDenied"
    ELSE IF status = 404 THEN "HTTPError"
    ELSE IF status >= 500 THEN "ServerError"
    ELSE "HTTPError"

\* the call ends: it returns or raises r
Finish(r) ==
    /\ pc' = "idle"
    /\ result' = r
    /\ UNCHANGED <<max_retries, attempt, sleeps>>

\* time.sleep(secs); continue
BackoffAndRetry(secs, lat) ==
    /\ now' = now + lat + secs * TicksPerSecond
    /\ sleeps' = Append(sleeps, secs)
    /\ attempt' = attempt + 1
    /\ pc' = "wait"
    /\ UNCHANGED <<max_retries, result>>

\* requests.request(...) answered with an HTTP status
ReceiveResponse ==
    /\ pc = "send"
    /\ \E status \in Statuses, lat \in {0, Latency} :
         /\ total_requests' = total_requests + 1
         /\ outcome' = "response"
         /\ status_code' = status
         /\ n429' = IF status = 429 THEN n429 + 1 ELSE n429
         /\ IF status >= 400
            THEN IF retries_status(status) /\ attempts_remain
                 THEN /\ reduce_rate_on_limit_hit
                      /\ BackoffAndRetry(rate_limit_backoff(attempt), lat)
                      /\ UNCHANGED failed_requests
                 ELSE \* failed_requests += 1, then the error is raised inside
                      \* the try block, where the RequestException handler
                      \* counts it again before re-raising
                      /\ IF raises_in_branch(status) \/ raise_for_status(status)
                         THEN /\ failed_requests' =
                                    except_RequestException(failed_requests + 1)
                              /\ Finish(http_error_of(status))
                         ELSE /\ failed_requests' = failed_requests + 1
                              /\ Finish("ApiResponse")
                      /\ now' = now + lat
                      /\ UNCHANGED <<max_rps, min_interval, rate_limit_hits,
                                     configured_rps>>
            ELSE /\ Finish("ApiResponse")
                 /\ now' = now + lat
                 /\ UNCHANGED <<failed_requests, max_rps, min_interval,
                                rate_limit_hits, configured_rps>>
    /\ UNCHANGED <<last_request_time, request_count, limiter_slept,
                   total0, failed0, hits0>>
    /\ UNCHANGED restVars

\* requests.request(...) raised Timeout or ConnectionError
ReceiveTransportError(kind) ==
    /\ pc = "send"
    /\ \E lat \in {0, Latency} :
         /\ total_requests' = total_requests + 1
         /\ outcome' = kind
         /\ status_code' = 0
         /\ IF attempts_remain
            THEN /\ BackoffAndRetry(exception_backoff(attempt), lat)
                 /\ UNCHANGED failed_requests
            ELSE /\ failed_requests' = failed_requests + 1
                 /\ Finish(kind)
                 /\ now' = now + lat
    /\ UNCHANGED <<limiterVars, n429, total0, failed0, hits0>>
    /\ UNCHANGED restVars

ReceiveTimeout == ReceiveTransportError("Timeout")

ReceiveConnectionError == ReceiveTransportError("ConnectionError")

\* requests.request(...) raised another RequestException
ReceiveRequestException ==
    /\ pc = "send"
    /\ \E lat \in {0, Latency} : now' = now + lat
    /\ total_requests' = total_requests + 1
    /\ outcome' = "RequestException"
    /\ status_code' = 0
    /\ failed_requests' = except_RequestException(failed_requests)
    /\ Finish("RequestException")
    /\ UNCHANGED <<limiterVars, n429, total0, failed0, hits0>>
    /\ UNCHANGED restVars

Next ==
    \/ StartCall
    \/ ApplyRateLimit
    \/ ReceiveResponse
    \/ ReceiveTimeout
    \/ ReceiveConnectionError
    \/ ReceiveRequestException

Spec == Init /\ [][Next]_vars

\* ------------------------------------------- RateLimiter driven directly

\* a caller of the limiter calls wait_if_needed()
LimiterWait ==
    /\ request_count < MaxWaits
    /\ wait_if_needed
    /\ UNCHANGED <<total_requests, failed_requests, callVars>>
    /\ UNCHANGED restVars

\* a caller of the limiter calls reduce_rate_on_limit_hit()
LimiterThrottle ==
    /\ rate_limit_hits < MaxThrottles
    /\ reduce_rate_on_limit_hit
    /\ UNCHANGED <<last_request_time, request_count, limiter_slept, now,
                   total_requests,
                   failed_requests, callVars>>
    /\ UNCHANGED restVars

\* time passes between two calls of the limiter
LimiterTick ==
    /\ \E d \in {TicksPerSecond \div 4, TicksPerSecond} :
         /\ now + d - last_request_time <= MaxIdle \/ request_count = 0
         /\ now + d <= StartTime + MaxIdle \/ request_count > 0
         /\ now' = now + d
    /\ UNCHANGED <<limiterVars, total_requests, failed_requests, callVars>>
    /\ UNCHANGED restVars

LimiterNext ==
    \/ LimiterWait
    \/ LimiterThrottle
    \/ LimiterTick

LimiterSpec == Init /\ [][LimiterNext]_vars

\* ------------------------------------- paginated fetchers (get_queues)

\* the state of a freshly built client that has sent nothing yet
GatewayIdle ==
    /\ RateLimiterInit(5 * RateUnitsPerRps)
    /\ now = StartTime
    /\ ClientInit
    /\ CallInit

\* the pages the service can hold: at most per_page items each
ServerPageLists(pp) ==
    UNION {[1..n -> 0..pp] : n \in 0..MaxPages}

\* number of items the service returns for page p
served_size(p) ==
    IF p \in 1..Len(server_pages) THEN server_pages[p] ELSE 0

\* the items of page p, in the order the service returns them
served_page(p) == [i \in 1..served_size(p) |-> <<p, i>>]

\* get_queues(per_page) / get_groups(per_page) is entered
PageInit ==
    /\ GatewayIdle
    /\ \E pp \in 1..MaxPerPage :
         /\ per_page = pp
         /\ server_pages \in ServerPageLists(pp)
    /\ page = 1
    /\ all_items = <<>>
    /\ page_requests = <<>>
    /\ fetch_pc = "loop"
    /\ AuditIdle

\* the stop test taken for "at most per_page"
short_page_or_full(n) == n <= per_page

\* "if len(queues) < per_page: break"
short_page(n) == n < per_page

\* one iteration of the while loop whose request is answered
RequestPage ==
    /\ fetch_pc = "loop"
    /\ page_requests' = Append(page_requests, page)
    /\ LET got == served_page(page)
       IN  IF Len(got) = 0
           THEN /\ fetch_pc' = "done"
                /\ UNCHANGED <<all_items, page>>
           ELSE /\ all_items' = all_items \o got
                /\ IF short_page(Len(got))
                   THEN fetch_pc' = "done" /\ page' = page
                   ELSE fetch_pc' = "loop" /\ page' = page + 1
    /\ UNCHANGED <<per_page, server_pages>>
    /\ UNCHANGED <<limiterVars, now, total_requests, failed_requests, callVars>>
    /\ UNCHANGED <<auditVars, compareVars>>

\* one iteration whose self.get(...) raises: the fetcher raises too
RequestPageFails ==
    /\ fetch_pc = "loop"
    /\ page_requests' = Append(page_requests, page)
    /\ fetch_pc' = "raised"
    /\ UNCHANGED <<per_page, server_pages, page, all_items>>
    /\ UNCHANGED <<limiterVars, now, total_requests, failed_requests, callVars>>
    /\ UNCHANGED <<auditVars, compareVars>>

PageNext ==
    \/ RequestPage
    \/ RequestPageFails

PageSpec == PageInit /\ [][PageNext]_vars

\* --------------------------------------------- TrackerAuditor: the data

\* permission maps the service answers a lookup with: the "permissions"
\* object as a list of entries in key order; `nonempty` names the sub-lists
\* ("groups", "users", "roles") that are present and non-empty
PermissionMaps ==
    { << [perm_type |-> "read", nonempty |-> {"groups"}] >>,
      << [perm_type |-> "read", nonempty |-> {"roles"}] >>,
      << [perm_type |-> "read", nonempty |-> {"users", "roles"}],
         [perm_type |-> "write", nonempty |-> {"groups", "users", "roles"}],
         [perm_type |-> "grant", nonempty |-> {}] >> }

\* bodies of a 403 answer to a lookup on queue q: one that is not the JSON
\* object expected, a complete one, one with only the queue key, and one
\* without the queue key
DeniedBodies(q) ==
    { NoBody,
      [json_ok |-> TRUE, key |-> q, display |-> "Queue", deleted |-> "true",
       has_owner |-> TRUE, owner_display |-> "Owner",
       owner_email |-> "owner@example.org", messages |-> <<"first", "more">>,
       pdm |-> "denied"],
      [json_ok |-> TRUE, key |-> q, display |-> Missing, deleted |-> Missing,
       has_owner |-> FALSE, owner_display |-> Missing,
       owner_email |-> Missing, messages |-> <<>>, pdm |-> ""],
      [json_ok |-> TRUE, key |-> Missing, display |-> "Queue",
       deleted |-> "false", has_owner |-> TRUE, owner_display |-> Missing,
       owner_email |-> "owner@example.org", messages |-> <<>>,
       pdm |-> "denied"] }

LookupReplies(q) ==
    {Reply("ApiResponse", 200, m, NoBody) : m \in PermissionMaps}
      \cup {Reply(http_error_of(st), st, <<>>, NoBody) :
               st \in Statuses \ {200, 403, 503}}
      \cup {Reply(http_error_of(403), 403, <<>>, b) : b \in DeniedBodies(q)}
      \cup {Reply(k, 0, <<>>, NoBody) :
               k \in {"Timeout", "ConnectionError", "RequestException"}}

\* dict.get(key, default)
dict_get(v, default) == IF v = Missing THEN default ELSE v

\* access_issue_data is None
NoIssueData ==
    [parsed |-> FALSE, queue_key |-> "", queue_name |-> "", owner_name |-> "",
     owner_email |-> "", is_deleted |-> FALSE, error_message |-> ""]

\* parsing failures abort the request instead of yielding None
log_permission_denied_error_strict(body) ==
    [parsed |-> TRUE,
     queue_key |-> dict_get(body.key, "Unknown"),
     queue_name |-> dict_get(body.display, "Unknown"),
     owner_name |-> dict_get(body.owner_display, "Unknown"),
     owner_email |-> dict_get(body.owner_email, "Unknown"),
     is_deleted |-> body.deleted = "true",
     error_message |-> IF body.messages # <<>> THEN body.messages[1]
                       ELSE IF body.pdm # "" THEN body.pdm
                       ELSE "Access denied"]

\* TrackerApiClient._log_permission_denied_error: the dict it returns
log_permission_denied_error(body) ==
    IF ~body.json_ok
    THEN NoIssueData
    ELSE [parsed |-> TRUE,
          queue_key |-> dict_get(body.key, "Unknown"),
          queue_name |-> dict_get(body.display, "Unknown"),
          owner_name |-> IF body.has_owner
                         THEN dict_get(body.owner_display, "Unknown")
                         ELSE "Unknown",
          owner_email |-> IF body.has_owner
                          THEN dict_get(body.owner_email, "Unknown")
                          ELSE "Unknown",
          is_deleted |-> body.deleted = "true",
          error_message |-> IF body.messages # <<>> THEN body.messages[1]
                            ELSE IF body.pdm # "" THEN body.pdm
                            ELSE "Access denied"]

\* the exception classes that are requests.HTTPError
HTTPErrors == {"RateLimitExceeded", "Unauthorized", "PermissionDenied",
               "ServerError", "HTTPError"}

\* '"404" in str(e)': only the raise_for_status message of a 404 holds the
\* text (the ids and keys of this model do not contain it)
text_has_404(reply) == reply.result = "HTTPError" /\ reply.status = 404

\* TrackerApiClient.get_user_permissions / get_group_permissions:
\* "value" with the response data (truthy or None), or "raise"
client_get_permissions(reply) ==
    IF reply.result = "ApiResponse"
    THEN [ret |-> "value", truthy |-> TRUE, data |-> reply.data]
    ELSE IF reply.result \in HTTPErrors /\ text_has_404(reply)
    THEN [ret |-> "value", truthy |-> FALSE, data |-> <<>>]
    ELSE [ret |-> "raise", truthy |-> FALSE, data |-> <<>>]

\* the reply classes after which the run is meant to stop
FatalResults == {"Unauthorized", "RateLimitExceeded", "ServerError",
                 "Timeout", "ConnectionError"}

\* the fatal classes are let through to the caller
auditor_catches_nonfatal(error) == error \notin FatalResults

\* "except Exception as e" of TrackerAuditor.get_user_permissions and
\* get_group_permissions: which exception classes the handler catches
auditor_catches(error) == TRUE

\* TrackerAuditor.get_user_permissions: a caught exception becomes None
auditor_get_user_permissions(reply) ==
    LET r == client_get_permissions(reply)
    IN  [truthy |-> r.ret = "value" /\ r.truthy, data |-> r.data,
         raises |-> r.ret = "raise" /\ ~auditor_catches(reply.result)]

\* AccessIssue(...) built from access_issue_data
AccessIssue(d) ==
    [queue_key |-> d.queue_key, queue_name |-> d.queue_name,
     owner_name |-> d.owner_name, owner_email |-> d.owner_email,
     is_deleted |-> d.is_deleted, error_message |-> d.error_message]

\* only the issue recorded last is compared
has_issue_latest(issues, key) ==
    issues # <<>> /\ issues[Len(issues)].queue_key = key

\* any(issue.queue_key == key for issue in self.access_issues)
has_issue(issues, key) == \E i \in 1..Len(issues) : issues[i].queue_key = key

\* the issue list after a denial: every denial is appended
record_issue_always(issues, reply) ==
    LET d == log_permission_denied_error(reply.body)
    IN  IF reply.result = "PermissionDenied" /\ d.parsed
        THEN Append(issues, AccessIssue(d))
        ELSE issues

\* the except branch of TrackerAuditor.get_group_permissions: the issue
\* list after the lookup was answered with reply
record_issue(issues, reply) ==
    LET d == log_permission_denied_error(reply.body)
    IN  IF /\ client_get_permissions(reply).ret = "raise"
           /\ auditor_catches(reply.result)
           /\ reply.result = "PermissionDenied"
           /\ d.parsed
           /\ ~has_issue(issues, d.queue_key)
        THEN Append(issues, AccessIssue(d))
        ELSE issues

\* TrackerAuditor.get_group_permissions: the value it returns
auditor_get_group_permissions(reply) ==
    LET r == client_get_permissions(reply)
    IN  [truthy |-> r.ret = "value" /\ r.truthy, data |-> r.data,
         raises |-> r.ret = "raise" /\ ~auditor_catches(reply.result)]

\* ------------------------------------------ TrackerAuditor: the audit run

\* most permission lookups one run issues before the model stops it
MaxLookups == 4

\* queue keys GET /v3/queues can list
QueueLists == { <<"Q1", "Q2">> }

\* group lists of the organisation; type 7 marks the all-users group
GroupLists ==
    { << [id |-> "g1", type |-> 1] >>,
      << [id |-> "g1", type |-> 1], [id |-> "g7", type |-> 7] >> }

\* display names, as the sequences of their code points:
\* "Alice", "Bob", "xRoBoT" and the Cyrillic word for robot written with
\* capital letters but for its last one
Alice == <<65, 108, 105, 99, 101>>
Bob == <<66, 111, 98>>
xRoBoT == <<120, 82, 111, 66, 79, 84>>
CyrillicROBOt == <<1056, 1054, 1041, 1054, 1090>>

\* user lists of the organisation
UserLists ==
    { << [id |-> "u1", display |-> Alice], [id |-> "u2", display |-> Bob] >>,
      << [id |-> "u3", display |-> xRoBoT],
         [id |-> "u1", display |-> Alice],
         [id |-> "u4", display |-> CyrillicROBOt] >> }

Scopes == {"groups", "users", "both", "all_users_group"}

\* the letter case is left as it is
lower_unchanged(text) == text

\* str.lower(): the capital Latin letters A..Z and the capital Cyrillic
\* letters U+0410..U+042F are 32 code points below their small letters,
\* the Cyrillic capitals U+0400..U+040F are 80 below
lower(text) ==
    [i \in 1..Len(text) |->
        IF text[i] \in 65..90 \/ text[i] \in 1040..1071 THEN text[i] + 32
        ELSE IF text[i] \in 1024..1039 THEN text[i] + 80
        ELSE text[i]]

\* "part in text" of two strings
contains(text, part) ==
    \E i \in 1..(Len(text) - Len(part) + 1) :
        SubSeq(text, i, i + Len(part) - 1) = part

\* the two words of the robot test: 'robot' and its Russian form
robot_latin == <<114, 111, 98, 111, 116>>
robot_cyrillic == <<1088, 1086, 1073, 1086, 1090>>

\* the robot test of the users loop
is_robot(display) ==
    \/ contains(lower(display), robot_cyrillic)
    \/ contains(lower(display), robot_latin)

\* the audit command starts: an auditor is built for some organisation
AuditInit ==
    /\ GatewayIdle
    /\ PageIdle
    /\ org_groups \in GroupLists
    /\ org_users \in UserLists
    /\ AuditorInit
    /\ scope \in Scopes
    /\ audit_pc = "start"
    /\ RunInit
    /\ CompareIdle

gatewayVars == <<limiterVars, now, total_requests, failed_requests, callVars>>

\* TrackerAuditor.get_all_queues: the list is fetched, or the fetch fails
\* and the audit command exits
GetAllQueues ==
    /\ audit_pc = "start"
    /\ \/ \E qs \in QueueLists : queues' = qs /\ audit_pc' = "queue"
       \/ queues' = <<>> /\ audit_pc' = "done"
    /\ UNCHANGED <<access_info, access_issues, users_cached, users_cache,
                   groups_cached, groups_cache, all_users_group_id>>
    /\ UNCHANGED <<scope, qi, all_access_info, queueVars, obsVars>>
    /\ UNCHANGED <<gatewayVars, pageVars, orgVars, fetchVars,
                   compareVars>>

\* audit_all_queues calls audit_queue_access(queue.key, scope)
BeginQueue ==
    /\ audit_pc = "queue"
    /\ qi <= Len(queues)
    /\ access_list' = <<>>
    /\ subjects' = <<>>
    /\ si' = 1
    /\ permissions_bound' = FALSE
    /\ permissions' = <<>>
    /\ user_info_bound' = FALSE
    /\ user_info_id' = ""
    /\ audit_pc' = IF scope = "all_users_group" THEN "all_users_group"
                   ELSE IF scope \in {"groups", "both"} THEN "enter_groups"
                   ELSE "enter_users"
    /\ UNCHANGED <<auditorVars, scope, qi, all_access_info, obsVars>>
    /\ UNCHANGED <<gatewayVars, pageVars, orgVars, fetchVars,
                   compareVars>>

\* the id of the first group, whatever its type
find_first_group(groups) ==
    IF groups # <<>> THEN groups[1].id ELSE all_users_group_id

\* the id of the first group of type 7, "" if there is none
find_all_users_group(groups) ==
    IF \E i \in 1..Len(groups) : groups[i].type = 7
    THEN groups[CHOOSE i \in 1..Len(groups) :
                   /\ groups[i].type = 7
                   /\ \A j \in 1..(i - 1) : groups[j].type # 7].id
    ELSE all_users_group_id

\* the cache is never consulted
cache_hit_never(cached) == FALSE

\* "if self._groups_cache is not None" / "if self._users_cache is not None"
cache_hit(cached) == cached

\* TrackerAuditor.get_all_groups; ok tells whether a fetch succeeds;
\* got is the list returned
get_all_groups(ok, got) ==
    IF cache_hit(groups_cached)
    THEN /\ got = groups_cache
         /\ UNCHANGED <<groups_cached, groups_cache, all_users_group_id,
                        group_fetches>>
    ELSE /\ group_fetches' = group_fetches + 1
         /\ IF ok
            THEN /\ got = org_groups
                 /\ groups_cached' = TRUE
                 /\ groups_cache' = org_groups
                 /\ all_users_group_id' = find_all_users_group(org_groups)
            ELSE /\ got = <<>>
                 /\ UNCHANGED <<groups_cached, groups_cache,
                                all_users_group_id>>

\* TrackerAuditor.get_all_users
get_all_users(ok, got) ==
    IF cache_hit(users_cached)
    THEN /\ got = users_cache
         /\ UNCHANGED <<users_cached, users_cache, user_fetches>>
    ELSE /\ user_fetches' = user_fetches + 1
         /\ IF ok
            THEN /\ got = org_users
                 /\ users_cached' = TRUE
                 /\ users_cache' = org_users
            ELSE /\ got = <<>>
                 /\ UNCHANGED <<users_cached, users_cache>>

\* the mechanisms of a group grant, in the order the code appends them
group_granted_via(nonempty) ==
    (IF "groups" \in nonempty THEN <<"group">> ELSE <<>>)
      \o (IF "users" \in nonempty THEN <<"users">> ELSE <<>>)
      \o (IF "roles" \in nonempty THEN <<"roles">> ELSE <<>>)

\* the mechanisms of a user grant
user_granted_via(nonempty) ==
    (IF "users" \in nonempty THEN <<"direct">> ELSE <<>>)
      \o (IF "roles" \in nonempty THEN <<"roles">> ELSE <<>>)

\* the grant does not name its queue
AccessInfo_unkeyed(q, perm_type, stype, sid, via) ==
    [queue_key |-> "", permission_type |-> perm_type, subject_type |-> stype,
     subject_id |-> sid,
     granted_permissions |-> << [perm_type |-> perm_type, via |-> via] >>]

\* AccessInfo(...): granted_permissions is the one-element list
\* [f'{perm_type} (via {", ".join(granted_via)})'], kept as its two parts
\* (subject_display is not modelled)
AccessInfo(q, perm_type, stype, sid, via) ==
    [queue_key |-> q, permission_type |-> perm_type, subject_type |-> stype,
     subject_id |-> sid,
     granted_permissions |-> << [perm_type |-> perm_type, via |-> via] >>]

\* a group grant needs the groups list
group_has_permission_groups_only(entry) == "groups" \in entry.nonempty

\* has_permission of the group loops: any of groups, users, roles
group_has_permission(entry) ==
    entry.nonempty \cap {"groups", "users", "roles"} # {}

\* the grants the "for perm_type, perm_details" loop of a group appends
group_grants(q, stype, sid, perms) ==
    LET sel == SelectSeq(perms, group_has_permission)
    IN  [i \in 1..Len(sel) |->
            AccessInfo(q, sel[i].perm_type, stype, sid,
                       group_granted_via(sel[i].nonempty))]

\* group-derived permissions counted for users too
user_has_permission_any(entry) ==
    entry.nonempty \cap {"groups", "users", "roles"} # {}

\* has_direct_permission or has_role_permission of the users loop
user_has_permission(entry) ==
    "users" \in entry.nonempty \/ "roles" \in entry.nonempty

\* the grants the "for perm_type, perm_details" loop of a user appends
user_grants(q, sid, perms) ==
    LET sel == SelectSeq(perms, user_has_permission)
    IN  [i \in 1..Len(sel) |->
            AccessInfo(q, sel[i].perm_type, "user", sid,
                       user_granted_via(sel[i].nonempty))]

\* bookkeeping of one issued lookup
CountLookup(q, stype, sid, reply, came) ==
    /\ looked_up' = [queue |-> q, subject_type |-> stype, subject_id |-> sid,
                     reply |-> reply, came |-> came]
    /\ lookups' = lookups + 1
    /\ lookups_after_fatal' =
          IF looked_up.reply.result \in FatalResults \/ lookups_after_fatal > 0
          THEN lookups_after_fatal + 1
          ELSE lookups_after_fatal

\* "groups = self.get_all_groups()" of the groups branch
EnterGroups ==
    /\ audit_pc = "enter_groups"
    /\ \E ok \in BOOLEAN : get_all_groups(ok, subjects')
    /\ si' = 1
    /\ audit_pc' = "groups"
    /\ UNCHANGED <<queues, access_info, access_issues, users_cached,
                   users_cache>>
    /\ UNCHANGED <<scope, qi, all_access_info, access_list, permissions_bound,
                   permissions, user_info_bound, user_info_id, obsVars>>
    /\ UNCHANGED <<gatewayVars, pageVars, orgVars, user_fetches,
                   compareVars>>

\* the grants collected before the exception are returned
QueueRaises_partial ==
    /\ access_list' = access_list
    /\ audit_pc' = "return"
    /\ UNCHANGED <<si, permissions_bound, permissions, user_info_bound,
                   user_info_id>>

\* the except branch of audit_queue_access: "return []"
QueueRaises ==
    /\ access_list' = <<>>
    /\ audit_pc' = "return"
    /\ UNCHANGED <<si, permissions_bound, permissions, user_info_bound,
                   user_info_id>>

\* one iteration of "for group in groups"
GroupStep ==
    /\ audit_pc = "groups"
    /\ si <= Len(subjects)
    /\ lookups < MaxLookups
    /\ LET group == subjects[si]
           queue_key == queues[qi]
       IN  \E reply \in LookupReplies(queue_key) :
             LET permissions_data == auditor_get_group_permissions(reply)
             IN  /\ access_issues' = record_issue(access_issues, reply)
                 /\ IF permissions_data.raises
                    THEN /\ QueueRaises
                         /\ CountLookup(queue_key, "group", group.id, reply,
                                        "raised")
                    ELSE /\ IF permissions_data.truthy
                            THEN /\ permissions_bound' = TRUE
                                 /\ permissions' = permissions_data.data
                                 /\ access_list' = access_list \o
                                       group_grants(queue_key, "group",
                                                    group.id,
                                                    permissions_data.data)
                            ELSE UNCHANGED <<permissions_bound, permissions,
                                             access_list>>
                         /\ si' = si + 1
                         /\ audit_pc' = audit_pc
                         /\ UNCHANGED <<user_info_bound, user_info_id>>
                         /\ CountLookup(queue_key, "group", group.id, reply,
                                        "looked_up")
    /\ UNCHANGED <<queues, access_info, users_cached, users_cache,
                   groups_cached, groups_cache, all_users_group_id>>
    /\ UNCHANGED <<scope, qi, all_access_info, subjects>>
    /\ UNCHANGED <<gatewayVars, pageVars, orgVars, fetchVars,
                   compareVars>>

\* the groups loop is over
LeaveGroups ==
    /\ audit_pc = "groups"
    /\ si > Len(subjects)
    /\ audit_pc' = IF scope = "both" THEN "enter_users" ELSE "return"
    /\ UNCHANGED <<auditorVars, scope, qi, all_access_info, queueVars, obsVars>>
    /\ UNCHANGED <<gatewayVars, pageVars, orgVars, fetchVars,
                   compareVars>>

\* "users = self.get_all_users()" of the users branch
EnterUsers ==
    /\ audit_pc = "enter_users"
    /\ \E ok \in BOOLEAN : get_all_users(ok, subjects')
    /\ si' = 1
    /\ audit_pc' = "users"
    /\ UNCHANGED <<queues, access_info, access_issues, groups_cached,
                   groups_cache, all_users_group_id>>
    /\ UNCHANGED <<scope, qi, all_access_info, access_list, permissions_bound,
                   permissions, user_info_bound, user_info_id, obsVars>>
    /\ UNCHANGED <<gatewayVars, pageVars, orgVars, group_fetches,
                   compareVars>>

\* one iteration of "for user in users"
UserStep ==
    /\ audit_pc = "users"
    /\ si <= Len(subjects)
    /\ LET user == subjects[si]
           queue_key == queues[qi]
       IN  IF is_robot(user.display)
           THEN \* continue
                /\ si' = si + 1
                /\ looked_up' = [queue |-> queue_key, subject_type |-> "user",
                                 subject_id |-> user.id, reply |-> NoReply,
                                 came |-> "skipped"]
                /\ UNCHANGED <<audit_pc, access_list, permissions_bound,
                               permissions, user_info_bound, user_info_id,
                               lookups, lookups_after_fatal>>
           ELSE /\ lookups < MaxLookups
                /\ \E reply \in LookupReplies(queue_key) :
                     LET permissions_data == auditor_get_user_permissions(reply)
                         \* the locals after "if permissions_data:"
                         bound == permissions_data.truthy \/ permissions_bound
                         perms == IF permissions_data.truthy
                                  THEN permissions_data.data ELSE permissions
                         info_bound == permissions_data.truthy \/ user_info_bound
                         info_id == IF permissions_data.truthy
                                    THEN user.id ELSE user_info_id
                         \* the loop over permissions runs in either case
                         grants == user_grants(queue_key, info_id, perms)
                     IN  IF \/ permissions_data.raises
                            \/ ~bound
                            \/ (grants # <<>> /\ ~info_bound)
                         THEN \* UnboundLocalError: permissions / user_info
                              /\ QueueRaises
                              /\ CountLookup(queue_key, "user", user.id, reply,
                                             "raised")
                         ELSE /\ permissions_bound' = bound
                              /\ permissions' = perms
                              /\ user_info_bound' = info_bound
                              /\ user_info_id' = info_id
                              /\ access_list' = access_list \o grants
                              /\ si' = si + 1
                              /\ audit_pc' = audit_pc
                              /\ CountLookup(queue_key, "user", user.id, reply,
                                             "looked_up")
    /\ UNCHANGED <<auditorVars, scope, qi, all_access_info, subjects>>
    /\ UNCHANGED <<gatewayVars, pageVars, orgVars, fetchVars,
                   compareVars>>

\* the users loop is over: "return access_list"
LeaveUsers ==
    /\ audit_pc = "users"
    /\ si > Len(subjects)
    /\ audit_pc' = "return"
    /\ UNCHANGED <<auditorVars, scope, qi, all_access_info, queueVars, obsVars>>
    /\ UNCHANGED <<gatewayVars, pageVars, orgVars, fetchVars,
                   compareVars>>

\* the whole branch of scope "all_users_group"
AllUsersGroupStep ==
    /\ audit_pc = "all_users_group"
    /\ IF all_users_group_id = ""
       THEN \E ok \in BOOLEAN, got \in {groups_cache, org_groups, <<>>} :
               get_all_groups(ok, got)
       ELSE UNCHANGED <<groups_cached, groups_cache, all_users_group_id,
                        group_fetches>>
    /\ LET queue_key == queues[qi]
           group_id == all_users_group_id'
       IN  IF group_id # ""
           THEN /\ lookups < MaxLookups
                /\ \E reply \in LookupReplies(queue_key) :
                     LET permissions_data ==
                             auditor_get_group_permissions(reply)
                     IN  /\ access_issues' = record_issue(access_issues, reply)
                         /\ IF permissions_data.raises
                            THEN /\ access_list' = <<>>
                                 /\ UNCHANGED <<permissions_bound, permissions>>
                            ELSE IF permissions_data.truthy
                            THEN /\ permissions_bound' = TRUE
                                 /\ permissions' = permissions_data.data
                                 /\ access_list' = access_list \o
                                       group_grants(queue_key, "all_users_group",
                                                    group_id,
                                                    permissions_data.data)
                            ELSE UNCHANGED <<permissions_bound, permissions,
                                             access_list>>
                         /\ CountLookup(queue_key, "all_users_group", group_id,
                                        reply,
                                        IF permissions_data.raises
                                        THEN "raised" ELSE "looked_up")
           ELSE /\ looked_up' = [queue |-> queue_key,
                                 subject_type |-> "all_users_group",
                                 subject_id |-> "", reply |-> NoReply,
                                 came |-> "no_group"]
                /\ UNCHANGED <<access_issues, permissions_bound, permissions,
                               access_list, lookups, lookups_after_fatal>>
    /\ audit_pc' = "return"
    /\ UNCHANGED <<queues, access_info, users_cached, users_cache>>
    /\ UNCHANGED <<scope, qi, all_access_info, subjects, si, user_info_bound,
                   user_info_id>>
    /\ UNCHANGED <<gatewayVars, pageVars, orgVars, user_fetches,
                   compareVars>>

\* the grants of the queue are put in front
extend_front(list, more) == more \o list

\* list.extend(more)
extend(list, more) == list \o more

\* audit_queue_access returns: "all_access_info.extend(queue_access)"
ReturnQueue ==
    /\ audit_pc = "return"
    /\ all_access_info' = extend(all_access_info, access_list)
    /\ qi' = qi + 1
    /\ audit_pc' = "queue"
    /\ UNCHANGED <<auditorVars, scope, queueVars, obsVars>>
    /\ UNCHANGED <<gatewayVars, pageVars, orgVars, fetchVars,
                   compareVars>>

\* the loop over the queues is over: "self.access_info = all_access_info"
FinishAudit ==
    /\ audit_pc = "queue"
    /\ qi > Len(queues)
    /\ access_info' = all_access_info
    /\ audit_pc' = "done"
    /\ UNCHANGED <<queues, access_issues, users_cached, users_cache,
                   groups_cached, groups_cache, all_users_group_id>>
    /\ UNCHANGED <<scope, qi, all_access_info, queueVars, obsVars>>
    /\ UNCHANGED <<gatewayVars, pageVars, orgVars, fetchVars,
                   compareVars>>

\* the positions of a run inside audit_all_queues
Running == {"queue", "enter_groups", "groups", "enter_users", "users",
            "all_users_group", "return"}

\* the interrupt hands the grants collected so far to the auditor
access_info_saved(held, collected) == collected

\* self.access_info when KeyboardInterrupt leaves audit_all_queues: the
\* assignment "self.access_info = all_access_info" has not run
access_info_on_interrupt(held, collected) == held

\* KeyboardInterrupt inside audit_all_queues: no handler below the audit
\* command catches it, the locals of the two functions are gone and the
\* command exits
Interrupt ==
    /\ audit_pc \in Running
    /\ audit_pc' = "interrupted"
    /\ access_info' = access_info_on_interrupt(access_info, all_access_info)
    /\ all_access_info' = <<>>
    /\ access_list' = <<>>
    /\ UNCHANGED <<queues, access_issues, users_cached, users_cache,
                   groups_cached, groups_cache, all_users_group_id>>
    /\ UNCHANGED <<scope, qi, subjects, si, permissions_bound, permissions,
                   user_info_bound, user_info_id, obsVars>>
    /\ UNCHANGED <<gatewayVars, pageVars, orgVars, fetchVars,
                   compareVars>>

AuditNext ==
    \/ Interrupt
    \/ GetAllQueues
    \/ BeginQueue
    \/ EnterGroups
    \/ GroupStep
    \/ LeaveGroups
    \/ EnterUsers
    \/ UserStep
    \/ LeaveUsers
    \/ AllUsersGroupStep
    \/ ReturnQueue
    \/ FinishAudit

AuditSpec == AuditInit /\ [][AuditNext]_vars

\* ------------------------------- audit_queue_access as a function of scope

\* the queue the scopes are compared on
CompareQueue == "Q1"

\* the ids of the groups and users of the organisation
SubjectIds ==
    {org_groups[i].id : i \in 1..Len(org_groups)}
       \cup {org_users[i].id : i \in 1..Len(org_users)}

\* the answers to a lookup: a permission map, or 404
CompareReplies ==
    {r \in LookupReplies(CompareQueue) :
        r.result = "ApiResponse" \/ r.status = 404}

\* the locals of audit_queue_access at its start ("access_list = []")
LocalsInit ==
    [access_list |-> <<>>, permissions_bound |-> FALSE, permissions |-> <<>>,
     user_info_bound |-> FALSE, user_info_id |-> "", raised |-> FALSE]

\* one iteration of "for group in groups" on the locals l
group_iteration(l, group) ==
    LET permissions_data == auditor_get_group_permissions(responses[group.id])
    IN  IF l.raised THEN l
        ELSE IF permissions_data.raises THEN [l EXCEPT !.raised = TRUE]
        ELSE IF permissions_data.truthy
        THEN [l EXCEPT !.permissions_bound = TRUE,
                       !.permissions = permissions_data.data,
                       !.access_list = l.access_list \o
                           group_grants(CompareQueue, "group", group.id,
                                        permissions_data.data)]
        ELSE l

\* one iteration of "for user in users" on the locals l
user_iteration(l, user) ==
    LET permissions_data == auditor_get_user_permissions(responses[user.id])
        bound == permissions_data.truthy \/ l.permissions_bound
        perms == IF permissions_data.truthy
                 THEN permissions_data.data ELSE l.permissions
        info_bound == permissions_data.truthy \/ l.user_info_bound
        info_id == IF permissions_data.truthy THEN user.id ELSE l.user_info_id
        grants == user_grants(CompareQueue, info_id, perms)
    IN  IF l.raised \/ is_robot(user.display) THEN l
        ELSE IF \/ permissions_data.raises
                \/ ~bound
                \/ (grants # <<>> /\ ~info_bound)
        THEN [l EXCEPT !.raised = TRUE]
        ELSE [l EXCEPT !.permissions_bound = bound,
                       !.permissions = perms,
                       !.user_info_bound = info_bound,
                       !.user_info_id = info_id,
                       !.access_list = l.access_list \o grants]

RECURSIVE groups_loop(_, _)
\* "for group in groups"
groups_loop(l, groups) ==
    IF groups = <<>> THEN l
    ELSE groups_loop(group_iteration(l, Head(groups)), Tail(groups))

RECURSIVE users_loop(_, _)
\* "for user in users"
users_loop(l, users) ==
    IF users = <<>> THEN l
    ELSE users_loop(user_iteration(l, Head(users)), Tail(users))

\* audit_queue_access(CompareQueue, s) for the scopes "groups", "users" and
\* "both", with both lists fetched: the list it returns
audit_queue_access(s) ==
    LET after_groups == IF s \in {"groups", "both"}
                        THEN groups_loop(LocalsInit, org_groups)
                        ELSE LocalsInit
        after_users == IF s \in {"users", "both"}
                       THEN users_loop(after_groups, org_users)
                       ELSE after_groups
    IN  IF after_users.raised THEN <<>> ELSE after_users.access_list

\* the scopes that run the two loops
LoopScopes == {"groups", "users", "both"}

NotCalled == [called |-> FALSE, grants |-> <<>>]

\* an organisation and the service's answers are fixed, nothing is called
CompareInit ==
    /\ GatewayIdle
    /\ PageIdle
    /\ org_groups \in GroupLists
    /\ org_users \in UserLists
    /\ AuditorInit
    /\ scope = "both"
    /\ audit_pc = "off"
    /\ RunInit
    /\ responses \in [SubjectIds -> CompareReplies]
    /\ returned = [s \in LoopScopes |-> NotCalled]

\* audit_queue_access is called with one of the scopes
CallAuditQueueAccess ==
    /\ \E s \in LoopScopes :
         /\ ~returned[s].called
         /\ returned' = [returned EXCEPT ![s] =
                            [called |-> TRUE, grants |-> audit_queue_access(s)]]
    /\ UNCHANGED <<gatewayVars, pageVars, auditVars, responses>>

CompareNext == CallAuditQueueAccess

CompareSpec == CompareInit /\ [][CompareNext]_vars

\* ------------------------------------------------------------ properties

\* attempts issued so far by the current (or last) _make_request call
Attempts == total_requests - total0

\* the call has ended
Ended == pc = "idle" /\ result # "none"

\* what a _make_request call can end with
Raised == {"RateLimitExceeded", "Unauthorized", "PermissionDenied",
           "ServerError", "HTTPError", "Timeout", "ConnectionError",
           "RequestException"}

\* loop steps the running call can still take at most
StepsLeft ==
    IF pc = "idle" THEN 0
    ELSE 2 * (max_retries - attempt) + (IF pc = "wait" THEN 2 ELSE 1)

\* C1: one _make_request call with max_retries = m issues at most m + 1
\* attempts whatever the service answers, every step of a running call
\* strictly decreases the number of steps it can still take (which is never
\* negative), and the call ends by returning a response or raising an error.
C1_RetryBound ==
    [][ /\ Attempts' <= max_retries' + 1
        /\ pc # "idle" => (StepsLeft' < StepsLeft /\ StepsLeft' >= 0)
        /\ (pc # "idle" /\ pc' = "idle") =>
               result' \in Raised \cup {"ApiResponse"} ]_vars

\* C1 witness: a call with max_retries = 2 used all 3 attempts on a mix of
\* a 429 and transport errors and ended with the timeout error.
C1_Witness ==
    /\ Ended /\ max_retries = 2 /\ Attempts = 3
    /\ n429 = 1 /\ result = "Timeout"

\* C2: while every attempt of a call has received 429, the backoff sleeps
\* are min(2^i, 10) seconds after attempt i = 0 .. m-1 in that order, there
\* is no sleep after attempt m, and the call ends after exactly m + 1
\* attempts with the rate-limit-exceeded error.
C2_AllThrottled ==
    (Attempts >= 1 /\ n429 = Attempts) =>
        /\ sleeps = [i \in 1..Min(Attempts, max_retries) |->
                         IF 2 ^ (i - 1) < 10 THEN 2 ^ (i - 1) ELSE 10]
        /\ Ended <=> Attempts = max_retries + 1
        /\ Ended => result = "RateLimitExceeded"

\* C2 witness: max_retries = 5, six 429 responses, sleeps 1, 2, 4, 8, 10.
C2_Witness ==
    /\ Ended /\ max_retries = 5 /\ n429 = 6 /\ Attempts = 6
    /\ sleeps = <<1, 2, 4, 8, 10>>

\* C3 (as claimed): the throttle callback is invoked once for every 429
\* response the call observes, the one of the last permitted attempt
\* included, so rate_limit_hits grows by the number of 429 responses.
C3_ThrottlePer429 == rate_limit_hits - hits0 = n429

\* C4: between two consecutive wait_if_needed calls, whatever throttle
\* callbacks and idle time come in between, the recorded last_request_time
\* advances by at least the min_interval in force at the later call.
C4_MinimumSpacing ==
    [][ (request_count' = request_count + 1 /\ request_count >= 1) =>
            last_request_time' - last_request_time >= min_interval ]_vars

\* C4 witness: a later wait_if_needed call had to sleep, after a throttle
\* callback had changed the interval.
C4_Witness ==
    /\ request_count >= 2 /\ rate_limit_hits >= 1
    /\ limiter_slept > 0 /\ pc = "idle" /\ total_requests = 0

\* C5 (as claimed): no step makes min_interval smaller, for every initial
\* max_requests_per_second > 0.
C5_IntervalNeverDecreases == [][min_interval' >= min_interval]_vars

\* C6: for a limiter built with a rate above 3/s, the first throttle
\* callback sets the rate to exactly 3/s and the interval to 1/3 s, every
\* later callback sets the interval to min(1.5 * previous, 2.0 s), and the
\* interval is never above 2.0 s.
C6_ThrottleSchedule ==
    [][ (configured_rps > 3 * RateUnitsPerRps
           /\ rate_limit_hits' = rate_limit_hits + 1) =>
          /\ rate_limit_hits = 0 =>
                /\ max_rps' = 3 * RateUnitsPerRps
                /\ 3 * min_interval' = TicksPerSecond
          /\ rate_limit_hits > 0 =>
                2 * min_interval' = Min(3 * min_interval, 4 * TicksPerSecond)
          /\ min_interval' <= 2 * TicksPerSecond
          /\ min_interval <= 2 * TicksPerSecond ]_vars

\* C6 witness: a limiter built with 5/s reached the 2.0 s ceiling on its
\* sixth callback and stayed there on its seventh.
C6_Witness ==
    /\ configured_rps = 5 * RateUnitsPerRps /\ rate_limit_hits = 7
    /\ min_interval = 2 * TicksPerSecond /\ total_requests = 0

\* the statuses C7 is about: 401, 403, 5xx and the 4xx other than 404, 429
FailsAtOnce(status) ==
    /\ status \in Statuses
    /\ \/ status = 401
       \/ status = 403
       \/ status >= 500
       \/ (status >= 400 /\ status < 500 /\ status # 404 /\ status # 429)

\* C7: an attempt that receives 401, 403, a status >= 500 or a 4xx other
\* than 404 and 429 ends the call with an error on that attempt: no further
\* attempt, no backoff sleep and no throttle callback, whatever retry budget
\* remains.
C7_NoRetryOnFatalStatus ==
    [][ (pc = "send" /\ outcome' = "response" /\ FailsAtOnce(status_code')) =>
          /\ pc' = "idle"
          /\ result' \in Raised
          /\ attempt' = attempt
          /\ sleeps' = sleeps
          /\ rate_limit_hits' = rate_limit_hits
          /\ min_interval' = min_interval ]_vars

\* C7 witness: a 503 on the first attempt of a call with max_retries = 5
\* ended the call with the server error.
C7_Witness ==
    /\ Ended /\ status_code = 503 /\ attempt = 0 /\ max_retries = 5
    /\ result = "ServerError" /\ Attempts = 1

\* C8 (as claimed): a call whose attempt receives 404 returns a response
\* object instead of raising.
C8_NotFoundReturnsResponse ==
    (Ended /\ status_code = 404) => result = "ApiResponse"

\* C8 (amended): a call whose attempt receives 404 raises the HTTP error of
\* raise_for_status on that attempt, without retry or backoff, and counts
\* the request as failed; no response object is returned.
C8_NotFoundRaises ==
    (pc = "idle" /\ status_code = 404) =>
        /\ result = "HTTPError"
        /\ Len(sleeps) = attempt
        /\ failed_requests > failed0

\* C8 witness: a 404 on the first attempt with retry budget left.
C8_Witness ==
    /\ Ended /\ status_code = 404 /\ attempt = 0 /\ max_retries = 2
    /\ result = "HTTPError"

\* C9 (as claimed): every attempt adds exactly 1 to total_requests, a call
\* that ends in a terminal failure adds exactly 1 to failed_requests, and a
\* call that returns a response adds nothing to it.
C9_CountersExact ==
    /\ Attempts = Len(sleeps) + (IF pc = "send" \/ ~Ended THEN 0 ELSE 1)
    /\ Ended => failed_requests - failed0 =
                    (IF result = "ApiResponse" THEN 0 ELSE 1)

\* C10: an attempt that ends in a timeout or a connection failure sleeps
\* 2^attempt seconds and retries if attempts remain, and otherwise ends the
\* call with the timeout or connection error, without sleeping.
C10_TransportErrorBackoff ==
    [][ (pc = "send" /\ outcome' \in {"Timeout", "ConnectionError"}) =>
          IF attempt < max_retries
          THEN /\ pc' = "wait"
               /\ attempt' = attempt + 1
               /\ sleeps' = Append(sleeps, 2 ^ attempt)
               /\ now' >= now + (2 ^ attempt) * TicksPerSecond
               /\ result' = "none"
          ELSE /\ pc' = "idle"
               /\ result' = outcome'
               /\ sleeps' = sleeps
               /\ now' <= now + Latency ]_vars

\* C10 witness: five transport errors backed off 1, 2, 4, 8, 16 seconds and
\* the sixth, on the last permitted attempt, ended the call.
C10_Witness ==
    /\ Ended /\ max_retries = 5 /\ result = "ConnectionError"
    /\ sleeps = <<1, 2, 4, 8, 16>>

\* the first k pages of the service, concatenated in page order
RECURSIVE FirstPages(_)
FirstPages(k) ==
    IF k = 0 THEN <<>>
    ELSE FirstPages(k - 1) \o [i \in 1..served_size(k) |-> <<k, i>>]

\* C11: the fetcher requests pages 1, 2, 3, ... in order; it goes on only
\* after full pages; once it has stopped, the last page requested is the
\* first one that is empty or shorter than per_page and the result is the
\* concatenation of all requested pages in request order.
C11_Pagination ==
    /\ page_requests = [i \in 1..Len(page_requests) |-> i]
    /\ fetch_pc = "loop" =>
          /\ page = Len(page_requests) + 1
          /\ \A j \in 1..Len(page_requests) : served_size(j) >= per_page
    /\ fetch_pc = "done" =>
          LET k == Len(page_requests)
          IN  /\ k >= 1
              /\ served_size(k) < per_page
              /\ \A j \in 1..(k - 1) : served_size(j) >= per_page
              /\ all_items = FirstPages(k)

\* C11 witness: pages of sizes 2, 2, 1 with page size 2 give 5 items after
\* exactly 3 requests.
C11_Witness ==
    /\ fetch_pc = "done" /\ per_page = 2 /\ server_pages = <<2, 2, 1>>
    /\ page_requests = <<1, 2, 3>> /\ Len(all_items) = 5

\* ------------------------------------------------- properties of the audit

\* the step issues a permission lookup
IssuesLookup == lookups' = lookups + 1

\* the grants the step appends to access_list
Appended ==
    SubSeq(access_list', Len(access_list) + 1, Len(access_list'))

\* the step keeps the grants collected so far and may append some
KeepsCollected ==
    /\ Len(access_list') >= Len(access_list)
    /\ SubSeq(access_list', 1, Len(access_list)) = access_list

\* number of appended grants for permission type p
AppendedFor(p) ==
    Cardinality({i \in 1..Len(Appended) : Appended[i].permission_type = p})

\* the set of tags in the text of a grant's granted_permissions
ViaSet(grant) ==
    LET via == grant.granted_permissions[1].via
    IN  {via[n] : n \in 1..Len(via)}

\* C12: under scope "users", the iteration of a user whose lookup returned
\* a permission map appends, for each permission type of that map, one grant
\* for that user if the type's users or roles list is non-empty and none
\* otherwise (so none for a type with only groups), tagged "direct" and/or
\* "roles" for exactly the non-empty ones of the two lists.
C12_UserGrants ==
    [][ (scope = "users" /\ audit_pc = "users" /\ IssuesLookup
           /\ looked_up'.reply.result = "ApiResponse") =>
          LET map == looked_up'.reply.data
          IN  /\ KeepsCollected
              /\ \A k \in 1..Len(map) :
                    AppendedFor(map[k].perm_type) =
                       (IF map[k].nonempty \cap {"users", "roles"} # {}
                        THEN 1 ELSE 0)
              /\ \A i \in 1..Len(Appended) :
                    /\ Appended[i].queue_key = queues[qi]
                    /\ Appended[i].subject_type = "user"
                    /\ Appended[i].subject_id = looked_up'.subject_id
                    /\ \E k \in 1..Len(map) :
                          /\ map[k].perm_type = Appended[i].permission_type
                          /\ "direct" \in ViaSet(Appended[i])
                               <=> "users" \in map[k].nonempty
                          /\ "roles" \in ViaSet(Appended[i])
                               <=> "roles" \in map[k].nonempty
                          /\ ViaSet(Appended[i])
                               \subseteq {"direct", "roles"} ]_vars

\* C12 witness: a user whose map has only roles for "read" got exactly one
\* grant, tagged "roles"; the user before, with only groups, got none.
C12_Witness ==
    /\ scope = "users" /\ audit_pc = "users" /\ si = 3
    /\ looked_up.came = "looked_up" /\ looked_up.subject_id = "u2"
    /\ looked_up.reply.data =
          << [perm_type |-> "read", nonempty |-> {"roles"}] >>
    /\ permissions_bound
    /\ access_list =
          << AccessInfo("Q1", "read", "user", "u2", <<"roles">>) >>

\* the tag a group grant carries for a non-empty list of the permission type
GroupTag(list) == IF list = "groups" THEN "group" ELSE list

\* C13: the lookup of a group (scope "groups") or of the all-users group
\* (scope "all_users_group") that returned a permission map appends exactly
\* one grant per permission type with any of groups, users, roles non-empty
\* and none for the other types; the grant is tagged with exactly the
\* mechanisms whose list is non-empty.
C13_GroupGrants ==
    [][ (scope \in {"groups", "all_users_group"} /\ IssuesLookup
           /\ looked_up'.reply.result = "ApiResponse") =>
          LET map == looked_up'.reply.data
          IN  /\ KeepsCollected
              /\ \A k \in 1..Len(map) :
                    AppendedFor(map[k].perm_type) =
                       (IF map[k].nonempty # {} THEN 1 ELSE 0)
              /\ \A i \in 1..Len(Appended) :
                    /\ Appended[i].queue_key = queues[qi]
                    /\ Appended[i].subject_type =
                          (IF scope = "groups" THEN "group"
                           ELSE "all_users_group")
                    /\ Appended[i].subject_id = looked_up'.subject_id
                    /\ \E k \in 1..Len(map) :
                          /\ map[k].perm_type = Appended[i].permission_type
                          /\ ViaSet(Appended[i]) =
                                {GroupTag(l) : l \in map[k].nonempty} ]_vars

\* C13 witness: under scope "all_users_group" a map whose "read" has only
\* groups gave one grant tagged "group".
C13_Witness ==
    /\ scope = "all_users_group"
    /\ looked_up.came = "looked_up"
    /\ looked_up.reply.result = "ApiResponse"
    /\ looked_up.reply.data =
          << [perm_type |-> "read", nonempty |-> {"groups"}] >>
    /\ access_list =
          << AccessInfo("Q1", "read", "all_users_group", "g7",
                        <<"group">>) >>

\* the (queue, permission type, subject) triple of a grant
Triple(grant) ==
    <<grant.queue_key, grant.permission_type, grant.subject_type,
      grant.subject_id>>

\* C14: the aggregate grant list holds no two entries with the same
\* (queue key, permission type, subject) triple.
C14_NoDuplicateGrants ==
    \A i, j \in 1..Len(all_access_info) :
        i # j => Triple(all_access_info[i]) # Triple(all_access_info[j])

\* C15: a lookup that fails or returns not-found contributes no grant for
\* that subject, keeps the grants collected for the queue so far, and the
\* loop goes on to the next subject.
C15_FailedLookupSkipsSubject ==
    [][ (audit_pc \in {"groups", "users"} /\ IssuesLookup
           /\ looked_up'.reply.result # "ApiResponse") =>
          /\ access_list' = access_list
          /\ si' = si + 1
          /\ audit_pc' = audit_pc ]_vars

\* the queue metadata that _log_permission_denied_error got from the body
Denied(reply) == log_permission_denied_error(reply.body)

\* C16: a lookup (user or group) that fails with PermissionDenied carrying
\* parsed queue metadata leaves an issue for that queue key in the list.
C16_DenialRecorded ==
    [][ (IssuesLookup /\ looked_up'.reply.result = "PermissionDenied"
           /\ Denied(looked_up'.reply).parsed) =>
          has_issue(access_issues',
                    Denied(looked_up'.reply).queue_key) ]_vars

\* C17: the issue list holds at most one issue per queue key.
C17_OneIssuePerQueue ==
    \A i, j \in 1..Len(access_issues) :
        i # j => access_issues[i].queue_key # access_issues[j].queue_key

\* C17 witness: a group lookup was denied for a queue key that already had
\* an issue with other content, and the list still holds that one issue.
C17_Witness ==
    /\ Len(access_issues) = 1
    /\ looked_up.subject_type = "group"
    /\ looked_up.reply.result = "PermissionDenied"
    /\ Denied(looked_up.reply).parsed
    /\ Denied(looked_up.reply).queue_key = access_issues[1].queue_key
    /\ AccessIssue(Denied(looked_up.reply)) # access_issues[1]

\* C18: the issue list only grows at its end, by one issue per step, and an
\* issue is appended only by a denied lookup whose queue key had no issue
\* yet, with the metadata of that denial; so the issue of a key is the one
\* of its first recorded denial and the list is in the order of recording.
C18_FirstSeenWins ==
    [][ LET n == Len(access_issues)
        IN  /\ Len(access_issues') \in {n, n + 1}
            /\ SubSeq(access_issues', 1, n) = access_issues
            /\ Len(access_issues') = n + 1 =>
                 /\ IssuesLookup
                 /\ looked_up'.reply.result = "PermissionDenied"
                 /\ Denied(looked_up'.reply).parsed
                 /\ access_issues'[n + 1] =
                       AccessIssue(Denied(looked_up'.reply))
                 /\ \A i \in 1..n :
                       access_issues[i].queue_key #
                          access_issues'[n + 1].queue_key ]_vars

\* C18 witness: two issues in the order of their first denials, after a
\* second, different denial for the key of the later one.
C18_Witness ==
    /\ Len(access_issues) = 2
    /\ access_issues[1].queue_key = "Q1"
    /\ access_issues[2].queue_key = "Q2"
    /\ looked_up.queue = "Q2"
    /\ looked_up.subject_id = "g7"
    /\ looked_up.reply.result = "PermissionDenied"
    /\ Denied(looked_up.reply).queue_key = "Q2"
    /\ AccessIssue(Denied(looked_up.reply)) # access_issues[2]

\* the six fields a parsed 403 body yields, with their defaults
Extracted(body) ==
    [queue_key |-> IF body.key = Missing THEN "Unknown" ELSE body.key,
     queue_name |-> IF body.display = Missing THEN "Unknown"
                    ELSE body.display,
     owner_name |-> IF body.has_owner /\ body.owner_display # Missing
                    THEN body.owner_display ELSE "Unknown",
     owner_email |-> IF body.has_owner /\ body.owner_email # Missing
                     THEN body.owner_email ELSE "Unknown",
     is_deleted |-> body.deleted = "true",
     error_message |-> IF Len(body.messages) > 0 THEN Head(body.messages)
                       ELSE IF body.pdm # "" THEN body.pdm
                       ELSE "Access denied"]

\* C19: a lookup answered 403 fails with PermissionDenied whatever the
\* body; with a body that cannot be parsed the error carries no metadata
\* and no issue is recorded; with a body that parses the error carries the
\* queue key, name, owner name, owner email, deleted flag and error message
\* extracted from it.
C19_DenialMetadata ==
    [][ (IssuesLookup /\ looked_up'.reply.status = 403) =>
          LET reply == looked_up'.reply
          IN  /\ reply.result = "PermissionDenied"
              /\ client_get_permissions(reply).ret = "raise"
              /\ IF reply.body.json_ok
                 THEN /\ Denied(reply).parsed
                      /\ AccessIssue(Denied(reply)) = Extracted(reply.body)
                 ELSE /\ ~Denied(reply).parsed
                      /\ access_issues' = access_issues ]_vars

\* C19 witness: a group lookup was denied with a body that does not parse
\* and nothing was recorded for it; the issue in the list is the one of an
\* earlier denial whose body had no queue key and no owner name.
C19_Witness ==
    /\ looked_up.subject_type = "group"
    /\ looked_up.reply.status = 403
    /\ ~looked_up.reply.body.json_ok
    /\ Len(access_issues) = 1
    /\ access_issues[1].queue_key = "Unknown"
    /\ access_issues[1].owner_name = "Unknown"
    /\ access_issues[1].owner_email = "owner@example.org"
    /\ access_issues[1].error_message = "denied"

\* C20: after a lookup failed with RateLimitExceeded, Unauthorized,
\* ServerError, Timeout or ConnectionError no further lookup is issued.
C20_FatalAborts == lookups_after_fatal = 0

\* C20 as the code has it: a lookup that fails with one of these classes
\* does not end the run. Nothing is recorded for it, the queue loop stays
\* at the same queue with the grants of the earlier queues, and the
\* subject loop goes on to the next subject with the grants collected so
\* far (the users loop may add the grants of the permission map bound
\* before, or return no grants for the queue when no map or no user
\* record is bound yet).
C20_FatalSwallowed ==
    [][ (IssuesLookup /\ looked_up'.reply.result \in FatalResults) =>
          /\ audit_pc' # "done"
          /\ qi' = qi
          /\ all_access_info' = all_access_info
          /\ access_issues' = access_issues
          /\ audit_pc = "groups" =>
                audit_pc' = "groups" /\ si' = si + 1
                   /\ access_list' = access_list
          /\ audit_pc = "all_users_group" =>
                audit_pc' = "return" /\ access_list' = access_list
          /\ audit_pc = "users" =>
                \/ audit_pc' = "users" /\ si' = si + 1 /\ KeepsCollected
                \/ audit_pc' = "return" /\ access_list' = <<>>
                      /\ (~permissions_bound \/ ~user_info_bound) ]_vars

\* C20 witness: lookups went on after one had failed with a fatal class,
\* and a later one of the same queue added a grant.
C20_Witness ==
    /\ lookups_after_fatal > 0
    /\ audit_pc = "groups"
    /\ looked_up.subject_id = "g7"
    /\ looked_up.reply.result = "ApiResponse"
    /\ access_list =
          << AccessInfo(looked_up.queue, "read", "group", "g7",
                        <<"group">>) >>

\* the step is the interrupt of a running audit
Interrupted == audit_pc # "interrupted" /\ audit_pc' = "interrupted"

\* C21: an interrupt at any point of audit_all_queues leaves the fetched
\* queues, the grants of the queues audited so far and the recorded issues
\* held by the auditor.
C21_InterruptKeepsResults ==
    [][ Interrupted =>
          /\ queues' = queues
          /\ access_issues' = access_issues
          /\ access_info' = all_access_info ]_vars

\* C21 as the code has it: the interrupt leaves the fetched queues and the
\* recorded issues on the auditor, while the grants of the queues audited
\* so far are only in the local list of audit_all_queues: the auditor's
\* access_info stays empty as before the run.
C21_InterruptKeepsQueuesAndIssues ==
    [][ Interrupted =>
          /\ queues' = queues
          /\ access_issues' = access_issues
          /\ access_info' = access_info
          /\ access_info' = <<>> ]_vars

\* C21 witness: the run was interrupted in the second queue after the
\* lookup of the first queue had given a grant; the auditor holds the
\* queues and no grant.
C21_Witness ==
    /\ audit_pc = "interrupted"
    /\ scope = "all_users_group"
    /\ qi = 2
    /\ queues = <<"Q1", "Q2">>
    /\ looked_up.queue = "Q1"
    /\ looked_up.came = "looked_up"
    /\ looked_up.reply.result = "ApiResponse"
    /\ looked_up.reply.data[1].nonempty # {}
    /\ access_info = <<>>

\* C22: an exception in the audit of one queue ends that queue with no
\* grant, the aggregate gets nothing from it, and the loop over the queues
\* goes on: the next queue is begun and its grants are appended.
C22_QueueFailureIsolated ==
    [][ /\ (IssuesLookup /\ looked_up'.came = "raised") =>
              /\ audit_pc' = "return"
              /\ access_list' = <<>>
              /\ qi' = qi
              /\ all_access_info' = all_access_info
        /\ (audit_pc = "return" /\ ~Interrupted) =>
              /\ all_access_info' = all_access_info \o access_list
              /\ qi' = qi + 1
              /\ audit_pc' = "queue"
        /\ (audit_pc = "queue" /\ ~Interrupted) =>
              IF qi <= Len(queues)
              THEN /\ audit_pc' \in {"enter_groups", "enter_users",
                                     "all_users_group"}
                   /\ qi' = qi
              ELSE audit_pc' = "done" ]_vars

\* C22 witness: under scope "users" with two users that are no robots, the
\* first queue ended after a single lookup (its audit raised) and gave
\* no grant; the second queue has been looked up and has a grant.
C22_Witness ==
    /\ scope = "users"
    /\ org_users[1].id = "u1" /\ org_users[2].id = "u2"
    /\ user_fetches = 1
    /\ qi = 2 /\ audit_pc = "users" /\ si = 2
    /\ lookups = 2
    /\ all_access_info = <<>>
    /\ access_list # <<>>

\* the position of a queue key in the fetched list
QueueIndex(key) == CHOOSE i \in 1..Len(queues) : queues[i] = key

\* C23: queues are audited in fetch order, the lookups of a queue follow
\* the fetch order of the groups and of the users, groups before users
\* under scope "both", and in the aggregate list the grants of an earlier
\* queue precede those of a later queue.
C23_FetchOrder ==
    [][ /\ qi' \in {qi, qi + 1}
        /\ qi' = qi + 1 => audit_pc = "return"
        /\ IssuesLookup => looked_up'.queue = queues[qi]
        /\ (IssuesLookup /\ audit_pc \in {"groups", "users"}) =>
              /\ looked_up'.subject_id = subjects[si].id
              /\ si' = si + 1 \/ audit_pc' = "return"
        /\ (audit_pc' = audit_pc /\ audit_pc \in {"groups", "users"}) =>
              si' = si + 1 /\ subjects' = subjects
        /\ audit_pc = "enter_groups" /\ ~Interrupted =>
              subjects' \in {org_groups, <<>>} /\ si' = 1
        /\ audit_pc = "enter_users" /\ ~Interrupted =>
              subjects' \in {org_users, <<>>} /\ si' = 1
        /\ audit_pc \in {"enter_users", "users"} =>
              audit_pc' \notin {"enter_groups", "groups"}
        /\ (scope = "both" /\ audit_pc = "queue") =>
              audit_pc' \notin {"enter_users", "users"}
        /\ (audit_pc = "return" /\ ~Interrupted) =>
              /\ all_access_info' = all_access_info \o access_list
              /\ \A i \in 1..Len(access_list) :
                    access_list[i].queue_key = queues[qi]
        /\ \A i, j \in 1..Len(all_access_info') :
              i < j => QueueIndex(all_access_info'[i].queue_key)
                          <= QueueIndex(all_access_info'[j].queue_key)
      ]_vars

\* C23 witness: both queues are audited and the aggregate list has the
\* grants of the first queue before those of the second.
C23_Witness ==
    /\ audit_pc = "queue" /\ qi = 3
    /\ Len(all_access_info) >= 2
    /\ all_access_info[1].queue_key = "Q1"
    /\ all_access_info[Len(all_access_info)].queue_key = "Q2"

\* C24: the group list and the user list are each fetched from the service
\* at most once per run, also when the fetch fails.
C24_FetchedOnce == group_fetches <= 1 /\ user_fetches <= 1

\* C24 as the code has it: a list that was fetched successfully is cached
\* and never fetched again, and the all-users group id, once resolved, is
\* kept; a failed fetch caches nothing, so the list is fetched again for
\* the next queue.
C24_CachedAfterSuccess ==
    [][ /\ groups_cached =>
              /\ group_fetches' = group_fetches
              /\ groups_cached' /\ groups_cache' = groups_cache
        /\ users_cached =>
              /\ user_fetches' = user_fetches
              /\ users_cached' /\ users_cache' = users_cache
        /\ all_users_group_id # "" =>
              /\ all_users_group_id' = all_users_group_id
              /\ group_fetches' = group_fetches
        /\ (~groups_cached /\ audit_pc = "enter_groups" /\ ~Interrupted) =>
              group_fetches' = group_fetches + 1
        /\ (~users_cached /\ audit_pc = "enter_users" /\ ~Interrupted) =>
              user_fetches' = user_fetches + 1 ]_vars

\* C24 witness: the group list was fetched for the first queue without
\* success and fetched again, with success, for the second queue.
C24_Witness ==
    /\ qi = 2
    /\ group_fetches = 2
    /\ groups_cached
    /\ groups_cache = org_groups
    /\ audit_pc = "groups"

\* the organisation has a group of type 7
HasAllUsersGroup == \E i \in 1..Len(org_groups) : org_groups[i].type = 7

\* C25: under scope "all_users_group" a queue gets at most one lookup, for
\* the group of type 7 and for no other subject; without a group of type 7
\* there is no lookup and no grant.
C25_OnlyAllUsersGroup ==
    [][ scope = "all_users_group" =>
          /\ IssuesLookup =>
                /\ audit_pc = "all_users_group" /\ audit_pc' = "return"
                /\ looked_up'.queue = queues[qi]
                /\ looked_up'.subject_type = "all_users_group"
                /\ \E i \in 1..Len(org_groups) :
                      /\ org_groups[i].type = 7
                      /\ org_groups[i].id = looked_up'.subject_id
          /\ lookups' <= qi'
          /\ lookups' <= lookups + 1
          /\ audit_pc' = "all_users_group" => audit_pc = "queue"
          /\ ~HasAllUsersGroup =>
                /\ lookups' = 0
                /\ access_list' = <<>>
                /\ all_access_info' = <<>> ]_vars

\* C25 witness: each of the two queues got its one lookup of group g7.
C25_Witness ==
    /\ scope = "all_users_group"
    /\ audit_pc = "return" /\ qi = 2
    /\ lookups = 2
    /\ looked_up.queue = "Q2"
    /\ looked_up.subject_id = "g7"

\* the ids of the users that carry a robot's name
RobotIds ==
    {org_users[i].id : i \in {k \in 1..Len(org_users) :
        org_users[k].display \in {xRoBoT, CyrillicROBOt}}}

\* the grants of a list whose subject is a user with a robot's name
RobotGrants(list) ==
    {i \in 1..Len(list) : /\ list[i].subject_type = "user"
                          /\ list[i].subject_id \in RobotIds}

\* C26: a user whose display name contains "robot" or its Russian form in
\* any letter case gets no permission lookup and is the subject of no
\* grant.
C26_RobotsSkipped ==
    /\ (looked_up.subject_type = "user"
          /\ looked_up.came \in {"looked_up", "raised"})
         => looked_up.subject_id \notin RobotIds
    /\ RobotGrants(access_list) = {}
    /\ RobotGrants(all_access_info) = {}
    /\ RobotGrants(access_info) = {}

\* C26 witness: the user with the Cyrillic robot name was skipped after
\* another user of the queue had been looked up and had got a grant.
C26_Witness ==
    /\ looked_up.came = "skipped"
    /\ looked_up.subject_id = "u4"
    /\ lookups >= 1
    /\ access_list # <<>>
    /\ si = 4

\* the keys of the fetched queues
QueueKeys == {queues[i] : i \in 1..Len(queues)}

\* C27: every grant of the aggregate list (and of the list the auditor
\* holds after the run) names a queue of the fetched queue list.
C27_GrantsOfFetchedQueues ==
    /\ \A i \in 1..Len(all_access_info) :
          all_access_info[i].queue_key \in QueueKeys
    /\ \A i \in 1..Len(access_info) : access_info[i].queue_key \in QueueKeys
    /\ \A i \in 1..Len(access_list) : access_list[i].queue_key \in QueueKeys

\* C27 witness: the run is over and the auditor holds a grant of Q2.
C27_Witness ==
    /\ audit_pc = "done"
    /\ access_info = all_access_info
    /\ \E i \in 1..Len(access_info) : access_info[i].queue_key = "Q2"

\* C29: failed_requests never exceeds total_requests.
C29_FailedAtMostTotal == failed_requests <= total_requests

\* C30: every recorded issue carries the key of a queue of the fetched
\* queue list.
C30_IssueKeysAreQueueKeys ==
    \A i \in 1..Len(access_issues) : access_issues[i].queue_key \in QueueKeys

\* C28: on the same queue and the same answers of the service, scope
\* "both" returns the grants of scope "groups" followed by the grants of
\* scope "users".
C28_BothIsGroupsThenUsers ==
    (\A s \in LoopScopes : returned[s].called) =>
        returned["both"].grants =
           returned["groups"].grants \o returned["users"].grants

====
